---- MODULE Spec2Model ----
(***************************************************************************)
(* MiNOS firmware upload handler, components/mn_ota/MnOta.cpp.             *)
(*                                                                         *)
(* MnOta::handle_upload is modelled as a sequential process whose position *)
(* is pc.  The request body is a byte sequence (integers 0..255); the HTTP *)
(* layer delivers it in chunks of arbitrary size and may time out, return  *)
(* 0 or fail.  The flash sink (the esp_ota calls) is an external           *)
(* collaborator: every call of it may succeed or fail.                     *)
(***************************************************************************)
EXTENDS Integers, Sequences, FiniteSets, TLC

(***************************************************************************)
(* Bounds of the checked request bodies.                                   *)
(***************************************************************************)
\* length of the long part-header line and of the long payload
MaxHdr == 40
MaxPay == 40

(***************************************************************************)
(* Program constants.                                                      *)
(***************************************************************************)
CHUNK == 1024
TAIL_MAX == 256
TAIL_MIN == 32
BOUNDARY_CAP == 128
MIN_IMAGE_HDR == 24
IMAGE_MAGIC == 233
CR == 13
LF == 10
DASH == 45

HTTP_OK == 200
HTTP_BAD_REQUEST == 400
HTTP_INTERNAL == 500

Min2(a, b) == IF a < b THEN a ELSE b
MinOf(S) == CHOOSE x \in S : \A y \in S : x <= y

hdr_end_pat == <<CR, LF, CR, LF>>

(***************************************************************************)
(* looks_like_esp_idf_image: b is the first chunk (1-based here, b[1] is   *)
(* the C b[0]).                                                            *)
(***************************************************************************)
looks_like_esp_idf_image(b) ==
  LET n == Len(b) IN
  IF n < MIN_IMAGE_HDR THEN FALSE
  ELSE IF n >= 2 /\ b[1] = DASH /\ b[2] = DASH THEN FALSE
  ELSE IF b[1] # IMAGE_MAGIC THEN FALSE
  ELSE IF b[2] = 0 \/ b[2] > 16 THEN FALSE
  ELSE IF b[3] > 5 THEN FALSE
  ELSE IF b[4] = 255 THEN FALSE
  ELSE \* entry = b[4] | b[5]<<8 | b[6]<<16 | b[7]<<24 is kept as its four
       \* bytes: it is 0 iff all are 0 and 0xFFFFFFFF iff all are 255
       LET entry == <<b[5], b[6], b[7], b[8]>>
       IN  ~(entry = <<0, 0, 0, 0>> \/ entry = <<255, 255, 255, 255>>)

(***************************************************************************)
(* find_subseq: 0-based position of the first occurrence of needle in hay  *)
(* at or after from, -1 when there is none.                                *)
(***************************************************************************)
find_subseq(hay, needle, from) ==
  IF Len(needle) = 0 \/ Len(hay) < Len(needle) \/ from > Len(hay) THEN -1
  ELSE LET S == { i \in from..(Len(hay) - Len(needle)) :
                    \A k \in 1..Len(needle) : hay[i + k] = needle[k] }
       IN  IF S = {} THEN -1 ELSE MinOf(S)

\* 0-based index of the first CR LF of the first chunk, -1 when there is none
FirstCrlf(rx) ==
  LET S == { i \in 0..(Len(rx) - 2) : rx[i + 1] = CR /\ rx[i + 2] = LF }
  IN  IF S = {} THEN -1 ELSE MinOf(S)

\* mutant of IsMultipartStart: only the line terminator is looked for
IsMultipartStart_NoDashCheck(rx, crlf) == ~(crlf < 2)

\* mutant of IsMultipartStart: only the two dashes are looked for
IsMultipartStart_NoCrlfCheck(rx, crlf) ==
  ~(Len(rx) < 2 \/ rx[1] # DASH \/ rx[2] # DASH)

\* the first chunk is accepted as the start of a multipart body
IsMultipartStart(rx, crlf) ==
  ~(crlf < 2 \/ rx[1] # DASH \/ rx[2] # DASH)

\* boundary = the first line, truncated to the boundary buffer
BoundaryOf(rx, crlf) ==
  SubSeq(rx, 1, IF crlf >= BOUNDARY_CAP THEN BOUNDARY_CAP - 1 ELSE crlf)

\* end-of-part marker: CR LF followed by the boundary
End1(boundary) == <<CR, LF>> \o boundary

\* mutant of TailSize: the margin of 8 and the floor are missing
TailSize_NoMargin(boundary_len) ==
  IF boundary_len > TAIL_MAX THEN TAIL_MAX ELSE boundary_len

\* number of bytes carried from one window to the next
TailSize(boundary_len) ==
  LET t == boundary_len + 8 IN
  IF t < TAIL_MIN THEN TAIL_MIN ELSE IF t > TAIL_MAX THEN TAIL_MAX ELSE t

\* mutant of KeepTail: one byte less than TAIL is kept
KeepTail_OneShort(win, TAIL) ==
  LET tail_len == IF Len(win) > TAIL THEN TAIL - 1 ELSE Len(win)
  IN  SubSeq(win, Len(win) - tail_len + 1, Len(win))

\* the last min(TAIL, win_len) bytes of the window
KeepTail(win, TAIL) ==
  LET tail_len == IF Len(win) > TAIL THEN TAIL ELSE Len(win)
  IN  SubSeq(win, Len(win) - tail_len + 1, Len(win))

\* mutant of MpWindow: the flush at the end-of-part marker runs into the marker
MpWindow_FlushPastMarker(tail, rx, started_payload, boundary) ==
  LET TAIL    == TailSize(Len(boundary))
      win     == tail \o rx
      win_len == Len(win)
      bp      == find_subseq(win, boundary, 0)
      hdr_end == IF bp = -1 THEN -1 ELSE find_subseq(win, hdr_end_pat, bp)
      waiting == ~started_payload /\ (bp = -1 \/ hdr_end = -1)
      write_from == IF started_payload THEN 0 ELSE hdr_end + Len(hdr_end_pat)
      end_pos == find_subseq(win, End1(boundary), write_from)
      write_upto == IF end_pos = -1
                    THEN IF win_len > write_from + TAIL THEN win_len - TAIL
                         ELSE write_from
                    ELSE end_pos + Len(boundary)
      fin     == end_pos # -1
  IN  IF waiting
      THEN [started |-> FALSE, done |-> FALSE, write_from |-> 0, write_upto |-> 0,
            tail |-> KeepTail(win, TAIL)]
      ELSE [started |-> TRUE, done |-> fin, write_from |-> write_from,
            write_upto |-> write_upto,
            tail |-> IF fin THEN tail ELSE KeepTail(win, TAIL)]

\* mutant of MpWindow: without a marker the whole window is flushed
MpWindow_FlushesTail(tail, rx, started_payload, boundary) ==
  LET TAIL    == TailSize(Len(boundary))
      win     == tail \o rx
      win_len == Len(win)
      bp      == find_subseq(win, boundary, 0)
      hdr_end == IF bp = -1 THEN -1 ELSE find_subseq(win, hdr_end_pat, bp)
      waiting == ~started_payload /\ (bp = -1 \/ hdr_end = -1)
      write_from == IF started_payload THEN 0 ELSE hdr_end + Len(hdr_end_pat)
      end_pos == find_subseq(win, End1(boundary), write_from)
      write_upto == IF end_pos = -1 THEN win_len ELSE end_pos
      fin     == end_pos # -1
  IN  IF waiting
      THEN [started |-> FALSE, done |-> FALSE, write_from |-> 0, write_upto |-> 0,
            tail |-> KeepTail(win, TAIL)]
      ELSE [started |-> TRUE, done |-> fin, write_from |-> write_from,
            write_upto |-> write_upto,
            tail |-> IF fin THEN tail ELSE KeepTail(win, TAIL)]

(***************************************************************************)
(* One pass of the multipart loop body over the window win = tail + rx.    *)
(* Result: the new tail, started_payload and done, and the range           *)
(* [write_from, write_upto) of the window handed to the sink (0-based,     *)
(* empty when write_upto <= write_from).                                   *)
(***************************************************************************)
MpWindow(tail, rx, started_payload, boundary) ==
  LET TAIL    == TailSize(Len(boundary))
      win     == tail \o rx
      win_len == Len(win)
      bp      == find_subseq(win, boundary, 0)
      hdr_end == IF bp = -1 THEN -1 ELSE find_subseq(win, hdr_end_pat, bp)
      waiting == ~started_payload /\ (bp = -1 \/ hdr_end = -1)
      write_from == IF started_payload THEN 0 ELSE hdr_end + Len(hdr_end_pat)
      end_pos == find_subseq(win, End1(boundary), write_from)
      write_upto == IF end_pos = -1
                    THEN IF win_len > write_from + TAIL THEN win_len - TAIL
                         ELSE write_from
                    ELSE end_pos
      fin     == end_pos # -1
  IN  IF waiting
      THEN [started |-> FALSE, done |-> FALSE, write_from |-> 0, write_upto |-> 0,
            tail |-> KeepTail(win, TAIL)]
      ELSE [started |-> TRUE, done |-> fin, write_from |-> write_from,
            write_upto |-> write_upto,
            tail |-> IF fin THEN tail ELSE KeepTail(win, TAIL)]

(***************************************************************************)
(* Request bodies.  A body is a record: bytes, and for a multipart body    *)
(* the 0-based offsets lo (first byte of the part body) and hi (first byte *)
(* of the CR LF that starts the end-of-part marker).                       *)
(***************************************************************************)
Rep(x, n) == [i \in 1..n |-> x]
\* firmware bytes: pairwise distinct, none of them CR, LF or '-'
Payload(n) == [i \in 1..n |-> 128 + i]
CRLF == <<CR, LF>>
Token == <<DASH, DASH, 98>>

MpBody(hl, pl) ==
  [kind  |-> "multipart",
   bytes |-> Token \o CRLF \o Rep(104, hl) \o CRLF \o CRLF \o Payload(pl)
             \o CRLF \o Token \o <<DASH, DASH>> \o CRLF,
   lo    |-> Len(Token) + 2 + hl + 4,
   hi    |-> Len(Token) + 2 + hl + 4 + pl]

\* a firmware image of n >= 8 bytes with a plausible header
RawImage(n) ==
  [kind  |-> "image",
   bytes |-> <<IMAGE_MAGIC, 1, 0, 0, 1, 0, 0, 0>> \o Payload(n - 8),
   lo    |-> 0,
   hi    |-> n]

\* starts with the magic byte but has segment count 0; holds a CR LF
BadImage ==
  [kind  |-> "bad",
   bytes |-> <<IMAGE_MAGIC, 0, 0, 0, 1, 0, 0, 0, 97, CR, LF>> \o Rep(97, 20),
   lo    |-> 0,
   hi    |-> 0]

\* starts with "--" but has no CR LF terminated first line
BadDashes ==
  [kind  |-> "bad",
   bytes |-> <<DASH, DASH>> \o Rep(97, 28),
   lo    |-> 0,
   hi    |-> 0]

\* a multipart body whose boundary line is one byte longer than boundary[]
\* can hold with its terminator
LongToken == <<DASH, DASH>> \o Rep(98, BOUNDARY_CAP - 2)
LongBoundary ==
  [kind  |-> "longboundary",
   bytes |-> LongToken \o CRLF \o Rep(104, 1) \o CRLF \o CRLF \o Payload(5)
             \o CRLF \o LongToken \o <<DASH, DASH>> \o CRLF,
   lo    |-> Len(LongToken) + 2 + 1 + 4,
   hi    |-> Len(LongToken) + 2 + 1 + 4 + 5]

\* the chunk sizes in which the body with the long boundary line is received
LongChunks == {1, BOUNDARY_CAP + 1, BOUNDARY_CAP + 2}

Bodies ==
  { MpBody(hl, pl) : hl \in {1, MaxHdr}, pl \in {0, 5, MaxPay} }
    \cup { RawImage(MIN_IMAGE_HDR), RawImage(MIN_IMAGE_HDR + MaxPay) }
    \cup { BadImage, BadDashes, LongBoundary }

(***************************************************************************)
(* Lines 81-90: the three heap buffers and the cleanup lambda.             *)
(***************************************************************************)
Buffers == {"rx", "win", "tail"}

\* heap_caps_malloc of the three buffers, got being those it could allocate
Allocated(got) == [b \in Buffers |-> IF b \in got THEN "live" ELSE "null"]

\* heap_caps_free of one buffer; the pointer keeps its value
heap_caps_free(st) == IF st = "live" THEN "freed" ELSE "freed_twice"

\* mutant of cleanup: the tail buffer is not released
cleanup_TailKept(h) ==
  [b \in Buffers |-> IF h[b] \in {"unset", "null"} \/ b = "tail" THEN h[b]
                     ELSE heap_caps_free(h[b])]

\* cleanup: every buffer whose pointer is not NULL is released
cleanup(h) ==
  [b \in Buffers |-> IF h[b] \in {"unset", "null"} THEN h[b]
                     ELSE heap_caps_free(h[b])]

VARIABLES
  pc,               \* position of the handler
  req,              \* the request body being uploaded (fixed per request)
  received_total,   \* bytes received so far = read position in the body
  rx,               \* receive buffer, kept only while its content is still to
                    \* be read: it holds the first chunk until the multipart
                    \* loop has parsed it; any other chunk is consumed by the
                    \* step that reads it
  have_prefetched,  \* the first chunk is still to be parsed by the multipart loop
  boundary,         \* boundary[] (with its leading "--")
  tail,             \* tail buffer (tail_len = Len(tail))
  started_payload,
  done,
  total_written,
  mode,             \* "none", "RAW" or "MULTIPART": the branch taken at line 125
  sink,             \* "closed", "open" (after esp_ota_begin), "ended"
  sink_ends,        \* number of esp_ota_end calls
  written,          \* bytes handed to successful esp_ota_write calls, in order
  written_offs,     \* their 0-based offsets in the body
  boot_set,         \* esp_ota_set_boot_partition succeeded
  heap,             \* of each of the buffers rx, win and tail: "unset" before
                    \* heap_caps_malloc, "null" when it returned NULL, "live",
                    \* "freed", "freed_twice"
  resp,             \* HTTP status codes sent
  write_failed,     \* an esp_ota_write call failed
  end_failed,       \* the esp_ota_end call of the finalization returned an error
  read_failed,      \* a read in the RAW or multipart loop returned <= 0
  marker_split,     \* a chunk ended strictly inside the end-of-part marker
  other_split,      \* a chunk ended elsewhere before the end of the body
  first_clear,      \* the part body starts more than TAIL bytes before the
                    \* end of the first chunk
  last_read,        \* result of the last httpd_req_recv call: "none" before
                    \* the first call, "timeout", "zero", "error" or "data"
  retry_flip        \* toggled by each read that is retried, so that a retry
                    \* is a step of its own; FALSE after any other read

hvars == <<received_total, rx, have_prefetched, boundary, tail, started_payload,
           done, total_written, mode>>
svars == <<sink, sink_ends, written, written_offs, boot_set, heap>>
gvars == <<write_failed, end_failed, read_failed, marker_split, other_split,
           first_clear>>
rvars == <<last_read, retry_flip>>

\* The device around the upload handler: the configuration record, its copy
\* in flash and the boot sequence of app_main.
VARIABLES
  dpc,              \* position of the firmware: "idle" (not modelled),
                    \* "load_or_init", "wifi_begin", "serving" (web server
                    \* up), "apply_new_cfg" (join attempt of a proposal)
  nvs,              \* the blob in flash: <<>> when absent, else <<record>>
  cfg,              \* MnConfig::cfg, the record in memory
  ap_started,       \* start_ap was called during this boot
  sta_tried,        \* start_sta was called by begin() during this boot
  join_ok,          \* result of the last start_sta call
  boot_cause,       \* what caused the last restart
  rollback_streak,  \* consecutive boots that ended in a rollback (capped)
  stable_cred,      \* credentials that were current the last time a record
                    \* with the STABLE flag was persisted
  req_auth,         \* the last request handled carried valid credentials
  prev_cred,        \* credentials in memory when the last form was received
  form              \* the fields of the last form received on /wifi

dvars == <<dpc, nvs, cfg, ap_started, sta_tried, join_ok, boot_cause,
           rollback_streak, stable_cred, req_auth, prev_cred, form>>
\* the CPU monitor of MnSysInfo.c
VARIABLES
  s_mon_mtx,        \* the mutex exists (s_mon_mtx is not NULL)
  mtx_holder,       \* who holds it: "none", "monitor" or "page"
  s_mon_task,       \* the monitor task exists (s_mon_task is not NULL)
  s_mon,            \* the snapshot: ready, last_total, global_inst, global_avg5s
  mpc,              \* position of mn_cpu_monitor_task
  total_now,        \* the sample the monitor task is working on
  ppc,              \* position of the renderer of the page being served
  page_fn,          \* the renderer: append_cpu_load or stream_cpu_load
  page_inst,        \* what the renderer last printed for global_inst
  page_avg          \* what the renderer last printed for global_avg5s

mvars == <<s_mon_mtx, mtx_holder, s_mon_task, s_mon, mpc, total_now, ppc,
           page_fn, page_inst, page_avg>>
uvars == <<pc, req, hvars, svars, gvars, resp, rvars>>
vars == <<pc, req, hvars, svars, gvars, resp, rvars, dvars, mvars>>

content_len == Len(req.bytes)

(***************************************************************************)
(* The configuration record (SystemConfig) and the values of its flags.    *)
(***************************************************************************)
FLASH_OK == 21845        \* 0x5555: the record is initialized
MaxStreak == 2           \* cap of the count of consecutive rollback boots
STABLE == 21845          \* 0x5555
TEST_PENDING == 43690    \* 0xAAAA

Ssids == {"", "a", "b"}
Passwords == {"", "x"}
Hostnames == {"h1"}
MacStr == "mac"

\* SystemConfig cfg{}: the record of a freshly constructed MnConfig
ZeroCfg ==
  [FlashStatus |-> 0, WifiConfig |-> 0, wifi_ssid |-> "", wifi_password |-> "",
   old_wifi_ssid |-> "", old_wifi_password |-> "", hostname |-> ""]

\* the form fields read by handle_query_wifi: each one present or not
NoForm == [ssid_set |-> FALSE, ssid |-> "", pass_set |-> FALSE, pass |-> "",
           host_set |-> FALSE, host |-> ""]
Forms ==
  {f \in [ssid_set : BOOLEAN, ssid : Ssids, pass_set : BOOLEAN, pass : Passwords,
          host_set : BOOLEAN, host : Hostnames \cup {""}] :
      /\ f.ssid_set \/ f.ssid = ""
      /\ f.pass_set \/ f.pass = ""
      /\ f.host_set <=> f.host # ""}

Cred(c) == <<c.wifi_ssid, c.wifi_password>>
OldCred(c) == <<c.old_wifi_ssid, c.old_wifi_password>>

\* the device part at rest, while only the upload handler is studied
\* the statics of MnSysInfo.c as the program starts: no mutex, no task, the
\* snapshot zeroed, no page being rendered
MonIdle ==
  /\ s_mon_mtx = FALSE
  /\ mtx_holder = "none"
  /\ s_mon_task = FALSE
  /\ s_mon = [ready |-> FALSE, last_total |-> 0, global_inst |-> 0,
              global_avg5s |-> 0]
  /\ mpc = "none"
  /\ total_now = 0
  /\ ppc = "idle"
  /\ page_fn = "none"
  /\ page_inst = 0
  /\ page_avg = 0

DevIdle ==
  /\ dpc = "idle"
  /\ nvs = <<>>
  /\ cfg = ZeroCfg
  /\ ap_started = FALSE
  /\ sta_tried = FALSE
  /\ join_ok = FALSE
  /\ boot_cause = "power_on"
  /\ rollback_streak = 0
  /\ stable_cred = <<"", "">>
  /\ req_auth = FALSE
  /\ prev_cred = <<"", "">>
  /\ form = NoForm

Init ==
  /\ pc = "start"
  /\ req \in Bodies
  /\ received_total = 0
  /\ rx = <<>>
  /\ have_prefetched = FALSE
  /\ boundary = <<>>
  /\ tail = <<>>
  /\ started_payload = FALSE
  /\ done = FALSE
  /\ total_written = 0
  /\ mode = "none"
  /\ sink = "closed"
  /\ sink_ends = 0
  /\ written = <<>>
  /\ written_offs = <<>>
  /\ boot_set = FALSE
  /\ heap = [b \in Buffers |-> "unset"]
  /\ resp = <<>>
  /\ write_failed = FALSE
  /\ end_failed = FALSE
  /\ read_failed = FALSE
  /\ marker_split = FALSE
  /\ other_split = FALSE
  /\ first_clear = FALSE
  /\ last_read = "none"
  /\ retry_flip = FALSE
  /\ DevIdle
  /\ MonIdle

(***************************************************************************)
(* Shared steps.                                                           *)
(***************************************************************************)
\* mutant of FailAndEnd: no response is sent
FailAndEnd_NoResponse(code) ==
  /\ resp' = resp
  /\ sink' = "ended"
  /\ sink_ends' = sink_ends + 1
  /\ heap' = cleanup(heap)
  /\ pc' = "returned"

\* httpd_resp_send_err(code); esp_ota_end(handle); return cleanup(ESP_FAIL)
FailAndEnd(code) ==
  /\ resp' = Append(resp, code)
  /\ sink' = "ended"
  /\ sink_ends' = sink_ends + 1
  /\ heap' = cleanup(heap)
  /\ pc' = "returned"

\* httpd_req_recv(req, rx, CHUNK): the sizes of a data chunk.  The body with
\* the long boundary line is received in a few sizes only (a byte, the first
\* line without and with its LF, all the rest), the other bodies in any size.
ChunkSizes ==
  LET all == 1..Min2(CHUNK, content_len - received_total)
  IN  IF req.kind = "longboundary"
      THEN {n \in all : n \in LongChunks \/ n = content_len - received_total}
      ELSE all

\* httpd_req_recv returned r and the loop reads again
ReadRetried(r) ==
  /\ last_read' = r
  /\ retry_flip' = ~retry_flip

\* httpd_req_recv returned r and the loop does not read again at once
ReadTaken(r) ==
  /\ last_read' = r
  /\ retry_flip' = FALSE

\* bookkeeping of the first chunk, of n bytes: it holds the boundary line and
\* the part headers of a multipart body, and more than TAIL bytes after them
FirstWindowClear(n) ==
  /\ req.kind = "multipart"
  /\ n > req.lo + TailSize(Len(Token))

\* bookkeeping of where a chunk of n bytes ends
NoteSplit(n) ==
  LET q == received_total + n
      L == Len(Token) + 2
  IN  /\ marker_split' = (marker_split \/ (req.kind = "multipart" /\ req.hi < q /\ q < req.hi + L))
      /\ other_split' = (other_split \/ (q < content_len
                            /\ ~(req.kind = "multipart" /\ req.hi < q /\ q < req.hi + L)))

(***************************************************************************)
(* Mutant of Begin: the buffer allocation failure returns without          *)
(* esp_ota_end.                                                            *)
(***************************************************************************)
Begin_AllocFailLeaks ==
  /\ pc = "start"
  /\ \E part_ok, begin_ok \in BOOLEAN, got \in SUBSET Buffers :
       IF ~part_ok \/ ~begin_ok
       THEN /\ resp' = Append(resp, HTTP_INTERNAL)
            /\ pc' = "returned"
            /\ UNCHANGED <<sink, sink_ends, heap>>
       ELSE IF got # Buffers
       THEN /\ resp' = Append(resp, HTTP_INTERNAL)
            /\ sink' = "open"
            /\ heap' = cleanup(Allocated(got))
            /\ pc' = "returned"
            /\ UNCHANGED sink_ends
       ELSE /\ sink' = "open"
            /\ heap' = Allocated(got)
            /\ pc' = "first"
            /\ UNCHANGED <<sink_ends, resp>>
  /\ UNCHANGED <<req, hvars, written, written_offs, boot_set, gvars, rvars>>

(***************************************************************************)
(* Mutant of Begin: the result of esp_ota_begin is not looked at.          *)
(***************************************************************************)
Begin_BeginFailureIgnored ==
  /\ pc = "start"
  /\ \E part_ok, begin_ok \in BOOLEAN, got \in SUBSET Buffers :
       IF ~part_ok
       THEN /\ resp' = Append(resp, HTTP_INTERNAL)
            /\ pc' = "returned"
            /\ UNCHANGED <<sink, sink_ends, heap>>
       ELSE IF got # Buffers
       THEN /\ resp' = Append(resp, HTTP_INTERNAL)
            /\ sink' = "ended"
            /\ sink_ends' = sink_ends + 1
            /\ heap' = cleanup(Allocated(got))
            /\ pc' = "returned"
       ELSE /\ sink' = IF begin_ok THEN "open" ELSE "closed"
            /\ heap' = Allocated(got)
            /\ pc' = "first"
            /\ UNCHANGED <<sink_ends, resp>>
  /\ UNCHANGED <<req, hvars, written, written_offs, boot_set, gvars, rvars>>

(***************************************************************************)
(* Lines 65-96: partition lookup, esp_ota_begin, buffer allocation.        *)
(***************************************************************************)
Begin ==
  /\ pc = "start"
  /\ \E part_ok, begin_ok \in BOOLEAN, got \in SUBSET Buffers :
       IF ~part_ok \/ ~begin_ok
       THEN /\ resp' = Append(resp, HTTP_INTERNAL)
            /\ pc' = "returned"
            /\ UNCHANGED <<sink, sink_ends, heap>>
       ELSE IF got # Buffers
       THEN /\ resp' = Append(resp, HTTP_INTERNAL)
            /\ sink' = "ended"
            /\ sink_ends' = sink_ends + 1
            /\ heap' = cleanup(Allocated(got))
            /\ pc' = "returned"
       ELSE /\ sink' = "open"
            /\ heap' = Allocated(got)
            /\ pc' = "first"
            /\ UNCHANGED <<sink_ends, resp>>
  /\ UNCHANGED <<req, hvars, written, written_offs, boot_set, gvars, rvars>>

\* ota_write(p, n) of the bytes found at body offset base, then either
\* total_written += n and on to next_pc, or the "OTA write failed" return
OtaWrite(bytes, base, next_pc) ==
  IF Len(bytes) = 0
  THEN /\ pc' = next_pc
       /\ UNCHANGED <<written, written_offs, total_written, write_failed,
                      sink, sink_ends, heap, resp>>
  ELSE \E ok \in BOOLEAN :
         IF ok
         THEN /\ written' = written \o bytes
              /\ written_offs' = written_offs \o [i \in 1..Len(bytes) |-> base + i - 1]
              /\ total_written' = total_written + Len(bytes)
              /\ pc' = next_pc
              /\ UNCHANGED <<write_failed, sink, sink_ends, heap, resp>>
         ELSE /\ write_failed' = TRUE
              /\ FailAndEnd(HTTP_INTERNAL)
              /\ UNCHANGED <<written, written_offs, total_written>>

\* lines 126-131: the sniffing chunk is itself written to the sink
RawFirstWrite_Skipped(chunk) == OtaWrite(<<>>, 0, "raw")
RawFirstWrite(chunk) == OtaWrite(chunk, 0, "raw")

(***************************************************************************)
(* Lines 104-114: the first read.  A timeout and a read of 0 both leave    *)
(* first_r = 0 and the loop reads again.                                   *)
(***************************************************************************)
\* the results of httpd_req_recv that make the first loop read again
FirstRetryResults == {"timeout", "zero"}

RecvFirstRetry ==
  /\ pc = "first"
  /\ \E r \in FirstRetryResults : ReadRetried(r)
  /\ UNCHANGED <<pc, req, hvars, svars, gvars, resp, dvars>>

RecvFirstError ==
  /\ pc = "first"
  /\ ReadTaken("error")
  /\ FailAndEnd(HTTP_BAD_REQUEST)
  /\ UNCHANGED <<req, hvars, written, written_offs, boot_set, gvars>>

(***************************************************************************)
(* Lines 106-198: a first chunk of n bytes arrives; framing detection,     *)
(* then the first RAW write or the multipart set-up.                       *)
(***************************************************************************)
RecvFirstData ==
  /\ pc = "first"
  /\ \E n \in ChunkSizes :
       LET chunk == SubSeq(req.bytes, 1, n)
           crlf  == FirstCrlf(chunk)
       IN  /\ rx' = IF looks_like_esp_idf_image(chunk) \/ ~IsMultipartStart(chunk, crlf)
                    THEN <<>> ELSE chunk
           /\ received_total' = n
           /\ first_clear' = FirstWindowClear(n)
           /\ NoteSplit(n)
           /\ ReadTaken("data")
           /\ IF looks_like_esp_idf_image(chunk)
              THEN /\ mode' = "RAW"
                   /\ RawFirstWrite(chunk)
                   /\ UNCHANGED <<have_prefetched, boundary>>
              ELSE IF ~IsMultipartStart(chunk, crlf)
              THEN /\ FailAndEnd(HTTP_BAD_REQUEST)
                   /\ UNCHANGED <<mode, have_prefetched, boundary, written,
                                  written_offs, total_written, write_failed>>
              ELSE /\ mode' = "MULTIPART"
                   /\ boundary' = BoundaryOf(chunk, crlf)
                   /\ have_prefetched' = TRUE
                   /\ pc' = "mp"
                   /\ UNCHANGED <<written, written_offs, total_written,
                                  write_failed, sink, sink_ends, heap,
                                  resp>>
  /\ UNCHANGED <<req, tail, started_payload, done, boot_set, end_failed, read_failed>>

(***************************************************************************)
(* Lines 133-146: the RAW loop.                                            *)
(***************************************************************************)
\* the results of httpd_req_recv that end the RAW and the multipart loop
EndResults == {"zero", "error"}

RawLoopExit ==
  /\ pc = "raw"
  /\ ~(received_total < content_len)
  /\ pc' = "final"
  /\ UNCHANGED <<req, hvars, svars, gvars, resp, rvars>>

RawRecvTimeout ==
  /\ pc = "raw"
  /\ received_total < content_len
  /\ ReadRetried("timeout")
  /\ UNCHANGED <<pc, req, hvars, svars, gvars, resp, dvars>>

RawRecvEnd ==
  /\ pc = "raw"
  /\ received_total < content_len
  /\ \E r \in EndResults : ReadTaken(r)
  /\ read_failed' = TRUE
  /\ pc' = "final"
  /\ UNCHANGED <<req, hvars, svars, resp, write_failed, end_failed,
                 marker_split, other_split, first_clear>>

RawRecvData ==
  /\ pc = "raw"
  /\ received_total < content_len
  /\ \E n \in ChunkSizes :
       LET chunk == SubSeq(req.bytes, received_total + 1, received_total + n)
       IN  /\ received_total' = received_total + n
           /\ NoteSplit(n)
           /\ ReadTaken("data")
           /\ OtaWrite(chunk, received_total, "raw")
  /\ UNCHANGED <<req, rx, have_prefetched, boundary, tail, started_payload, done,
                 mode, boot_set, end_failed, read_failed, first_clear>>

(***************************************************************************)
(* Lines 200-272: the multipart loop.                                      *)
(***************************************************************************)
\* lines 214-271 on the chunk now in rx, the last byte of which is body
\* byte number upto
MpProcess(chunk, upto) ==
  LET w     == MpWindow(tail, chunk, started_payload, boundary)
      win   == tail \o chunk
      base  == upto - Len(win)
      bytes == SubSeq(win, w.write_from + 1, w.write_upto)
  IN  /\ tail' = w.tail
      /\ started_payload' = w.started
      /\ done' = w.done
      /\ OtaWrite(bytes, base + w.write_from, "mp")

MpLoopExit ==
  /\ pc = "mp"
  /\ \/ done
     \/ ~(received_total <= content_len)
     \/ ~have_prefetched /\ received_total >= content_len
  /\ pc' = "final"
  /\ UNCHANGED <<req, hvars, svars, gvars, resp, rvars>>

MpPrefetched ==
  /\ pc = "mp"
  /\ ~done /\ received_total <= content_len
  /\ have_prefetched
  /\ have_prefetched' = FALSE
  /\ rx' = <<>>
  /\ MpProcess(rx, received_total)
  /\ UNCHANGED <<req, received_total, boundary, mode, boot_set, end_failed,
                 read_failed, marker_split, other_split, first_clear,
                 rvars>>

MpRecvTimeout ==
  /\ pc = "mp"
  /\ ~done /\ ~have_prefetched /\ received_total < content_len
  /\ ReadRetried("timeout")
  /\ UNCHANGED <<pc, req, hvars, svars, gvars, resp, dvars>>

MpRecvEnd ==
  /\ pc = "mp"
  /\ ~done /\ ~have_prefetched /\ received_total < content_len
  /\ \E r \in EndResults : ReadTaken(r)
  /\ read_failed' = TRUE
  /\ pc' = "final"
  /\ UNCHANGED <<req, hvars, svars, resp, write_failed, end_failed,
                 marker_split, other_split, first_clear>>

MpRecvData ==
  /\ pc = "mp"
  /\ ~done /\ ~have_prefetched /\ received_total < content_len
  /\ \E n \in ChunkSizes :
       LET chunk == SubSeq(req.bytes, received_total + 1, received_total + n)
       IN  /\ received_total' = received_total + n
           /\ NoteSplit(n)
           /\ ReadTaken("data")
           /\ MpProcess(chunk, received_total + n)
  /\ UNCHANGED <<req, rx, have_prefetched, boundary, mode, boot_set, end_failed,
                 read_failed, first_clear>>

(***************************************************************************)
(* Lines 275-297: finalization.                                            *)
(***************************************************************************)
\* mutants of FinalOutcome: the end result is not looked at; the empty check
\* is missing
FinalOutcome_EndIgnored(tw, end_ok, boot_ok) ==
  IF tw = 0 THEN "empty"
  ELSE IF ~boot_ok THEN "boot_failed"
  ELSE "ok"

FinalOutcome_NoEmptyCheck(tw, end_ok, boot_ok) ==
  IF ~end_ok THEN "end_failed"
  ELSE IF ~boot_ok THEN "boot_failed"
  ELSE "ok"

\* which of the four exits of lines 276-297 is taken
FinalOutcome(tw, end_ok, boot_ok) ==
  IF tw = 0 THEN "empty"
  ELSE IF ~end_ok THEN "end_failed"
  ELSE IF ~boot_ok THEN "boot_failed"
  ELSE "ok"

\* mutant of AfterFinal: the return after "Set boot partition failed" is missing
AfterFinal_FallsThrough(o) ==
  IF o \in {"ok", "boot_failed"} THEN "restarted" ELSE "returned"

\* the exit ends in esp_restart() (line 296) or in a return
AfterFinal(o) == IF o = "ok" THEN "restarted" ELSE "returned"

Finalize ==
  /\ pc = "final"
  /\ \E end_ok, boot_ok \in BOOLEAN :
       LET o == FinalOutcome(total_written, end_ok, boot_ok)
       IN  /\ sink' = "ended"
           /\ sink_ends' = sink_ends + 1
           /\ heap' = cleanup(heap)
           /\ end_failed' = ~end_ok
           /\ boot_set' = (o = "ok")
           /\ resp' = Append(resp, IF o = "ok" THEN HTTP_OK
                                   ELSE IF o = "empty" THEN HTTP_BAD_REQUEST
                                   ELSE HTTP_INTERNAL)
           /\ pc' = AfterFinal(o)
  /\ UNCHANGED <<req, hvars, written, written_offs, write_failed, read_failed,
                 marker_split, other_split, first_clear,
                 rvars>>

Next ==
  \/ Begin /\ UNCHANGED <<dvars, mvars>>
  \/ RecvFirstRetry /\ UNCHANGED <<dvars, mvars>>
  \/ RecvFirstError /\ UNCHANGED <<dvars, mvars>>
  \/ RecvFirstData /\ UNCHANGED <<dvars, mvars>>
  \/ RawLoopExit /\ UNCHANGED <<dvars, mvars>>
  \/ RawRecvTimeout /\ UNCHANGED <<dvars, mvars>>
  \/ RawRecvEnd /\ UNCHANGED <<dvars, mvars>>
  \/ RawRecvData /\ UNCHANGED <<dvars, mvars>>
  \/ MpLoopExit /\ UNCHANGED <<dvars, mvars>>
  \/ MpPrefetched /\ UNCHANGED <<dvars, mvars>>
  \/ MpRecvTimeout /\ UNCHANGED <<dvars, mvars>>
  \/ MpRecvEnd /\ UNCHANGED <<dvars, mvars>>
  \/ MpRecvData /\ UNCHANGED <<dvars, mvars>>
  \/ Finalize /\ UNCHANGED <<dvars, mvars>>

Spec == Init /\ [][Next]_vars

\* The handler runs in the HTTP server task, which is always scheduled again:
\* as long as the handler has a step to take it takes one.  What the reads
\* return is up to the client and the network and is not constrained.
LiveBodies == {MpBody(1, 5), RawImage(MIN_IMAGE_HDR + MaxPay)}
LiveInit == Init /\ req \in LiveBodies
LiveSpec == LiveInit /\ [][Next]_vars /\ WF_vars(Next)

(***************************************************************************)
(* The device: MnConfig, MnWiFi::begin, the /wifi, /factory-reset and      *)
(* /reboot handlers.  A restart loses the memory and runs app_main again.  *)
(***************************************************************************)
\* Mutant of reset_defaults: the Wi-Fi flag is left as memset left it.
reset_defaults_NoWifiState(mac_str) ==
  [ZeroCfg EXCEPT !.FlashStatus = FLASH_OK, !.hostname = mac_str]

\* Mutant of reset_defaults: the sentinel is left as memset left it.
reset_defaults_NoSentinel(mac_str) ==
  [ZeroCfg EXCEPT !.WifiConfig = STABLE, !.hostname = mac_str]

\* MnConfig::reset_defaults
reset_defaults(mac_str) ==
  [ZeroCfg EXCEPT !.FlashStatus = FLASH_OK, !.WifiConfig = STABLE,
                  !.hostname = mac_str]

\* MnConfig::save(): the record c of the memory goes to flash
Save(c) ==
  /\ nvs' = <<c>>
  /\ stable_cred' = IF c.WifiConfig = STABLE THEN Cred(c) ELSE stable_cred

\* esp_restart(): the memory is lost and app_main starts again
Restart(cause) ==
  /\ dpc' = "load_or_init"
  /\ cfg' = ZeroCfg
  /\ ap_started' = FALSE
  /\ sta_tried' = FALSE
  /\ boot_cause' = cause
  /\ prev_cred' = <<"", "">>
  /\ form' = NoForm

\* start_sta: whether an address is obtained before the timeout is up to the
\* network; no network is joined with an empty SSID
JoinOutcomes(ssid) == IF ssid = "" THEN {FALSE} ELSE BOOLEAN

\* MnConfig::load_or_init
LoadOrInit ==
  /\ dpc = "load_or_init"
  /\ \E open_ok, get_ok \in BOOLEAN :
       IF ~open_ok
       THEN /\ dpc' = "wifi_begin"
            /\ UNCHANGED <<nvs, cfg, ap_started, sta_tried, boot_cause,
                           stable_cred, prev_cred, form>>
       ELSE IF get_ok /\ Len(nvs) = 1 /\ nvs[1].FlashStatus = FLASH_OK
       THEN /\ cfg' = nvs[1]
            /\ dpc' = "wifi_begin"
            /\ UNCHANGED <<nvs, ap_started, sta_tried, boot_cause,
                           stable_cred, prev_cred, form>>
       ELSE /\ Save(reset_defaults(MacStr))
            /\ Restart("init")
  /\ UNCHANGED <<join_ok, rollback_streak, req_auth>>
  /\ UNCHANGED <<uvars, mvars>>

\* Mutant of BeginBranch: the test of the empty SSID is missing.
BeginBranch_NoEmptyCheck(c, ok) ==
  IF ~ok /\ c.WifiConfig = TEST_PENDING THEN "rollback"
  ELSE IF ok /\ c.WifiConfig = TEST_PENDING THEN "commit"
  ELSE IF ~ok THEN "ap_fallback"
  ELSE "sta"

\* Mutant of BeginBranch: a failed join never rolls back.
BeginBranch_NoRollback(c, ok) ==
  IF c.wifi_ssid = "" THEN "no_ssid"
  ELSE IF ok /\ c.WifiConfig = TEST_PENDING THEN "commit"
  ELSE IF ~ok THEN "ap_fallback"
  ELSE "sta"

\* Mutant of BeginBranch: a successful join under test is not committed.
BeginBranch_NoCommit(c, ok) ==
  IF c.wifi_ssid = "" THEN "no_ssid"
  ELSE IF ~ok /\ c.WifiConfig = TEST_PENDING THEN "rollback"
  ELSE IF ~ok THEN "ap_fallback"
  ELSE "sta"

\* Mutant of BeginBranch: a failed join in the STABLE state starts no AP.
BeginBranch_NoApFallback(c, ok) ==
  IF c.wifi_ssid = "" THEN "no_ssid"
  ELSE IF ~ok /\ c.WifiConfig = TEST_PENDING THEN "rollback"
  ELSE IF ok /\ c.WifiConfig = TEST_PENDING THEN "commit"
  ELSE "sta"

\* Mutant of BeginBranch: the flag is not looked at.
BeginBranch_FlagIgnored(c, ok) ==
  IF c.wifi_ssid = "" THEN "no_ssid"
  ELSE IF ~ok THEN "ap_fallback"
  ELSE "sta"

\* MnWiFi::begin: the branch taken, ok being the result of start_sta
BeginBranch(c, ok) ==
  IF c.wifi_ssid = "" THEN "no_ssid"
  ELSE IF ~ok /\ c.WifiConfig = TEST_PENDING THEN "rollback"
  ELSE IF ok /\ c.WifiConfig = TEST_PENDING THEN "commit"
  ELSE IF ~ok THEN "ap_fallback"
  ELSE "sta"

\* Mutant of RollbackCfg: the two pairs of credentials are exchanged.
RollbackCfg_SwapsOld(c) ==
  [c EXCEPT !.WifiConfig = TEST_PENDING,
            !.wifi_ssid = c.old_wifi_ssid,
            !.wifi_password = c.old_wifi_password,
            !.old_wifi_ssid = c.wifi_ssid,
            !.old_wifi_password = c.wifi_password]

\* the record written by the rollback branch
RollbackCfg(c) ==
  [c EXCEPT !.WifiConfig = TEST_PENDING,
            !.wifi_ssid = c.old_wifi_ssid,
            !.wifi_password = c.old_wifi_password]

\* MnWiFi::begin
WifiBegin ==
  /\ dpc = "wifi_begin"
  /\ \E ok \in JoinOutcomes(cfg.wifi_ssid) :
       LET b == BeginBranch(cfg, ok)
       IN  /\ join_ok' = IF b = "no_ssid" THEN join_ok ELSE ok
           /\ rollback_streak' = IF b = "rollback"
                                 THEN Min2(rollback_streak + 1, MaxStreak)
                                 ELSE 0
           /\ IF b = "rollback"
              THEN Save(RollbackCfg(cfg)) /\ Restart("rollback")
              ELSE IF b = "commit"
              THEN Save([cfg EXCEPT !.WifiConfig = STABLE]) /\ Restart("commit")
              ELSE /\ dpc' = "serving"
                   /\ ap_started' = (b \in {"no_ssid", "ap_fallback"})
                   /\ sta_tried' = (b # "no_ssid")
                   /\ UNCHANGED <<nvs, cfg, boot_cause, stable_cred,
                                  prev_cred, form>>
  /\ UNCHANGED req_auth
  /\ UNCHANGED <<uvars, mvars>>

\* handle_query_wifi: wifi_changed
wifi_changed(f) == f.ssid_set \/ f.pass_set

\* Mutant of ApplyWifiForm: the flag is not set to TEST_PENDING.
ApplyWifiForm_NoStage(c, f) ==
  LET c1 == [c EXCEPT !.old_wifi_ssid = c.wifi_ssid,
                      !.old_wifi_password = c.wifi_password]
      c2 == IF f.ssid_set THEN [c1 EXCEPT !.wifi_ssid = f.ssid] ELSE c1
      c3 == IF f.pass_set THEN [c2 EXCEPT !.wifi_password = f.pass] ELSE c2
  IN  IF f.host_set THEN [c3 EXCEPT !.hostname = f.host] ELSE c3

\* handle_query_wifi: the record after the form f was applied to c
ApplyWifiForm(c, f) ==
  LET c1 == [c EXCEPT !.old_wifi_ssid = c.wifi_ssid,
                      !.old_wifi_password = c.wifi_password]
      c2 == IF f.ssid_set THEN [c1 EXCEPT !.wifi_ssid = f.ssid] ELSE c1
      c3 == IF f.pass_set THEN [c2 EXCEPT !.wifi_password = f.pass] ELSE c2
      c4 == IF f.host_set THEN [c3 EXCEPT !.hostname = f.host] ELSE c3
  IN  IF wifi_changed(f) THEN [c4 EXCEPT !.WifiConfig = TEST_PENDING] ELSE c4

\* handle_query_wifi, up to the call of apply_new_cfg_and_test
HandleQueryWifi ==
  /\ dpc = "serving"
  /\ \E auth \in BOOLEAN, f \in Forms :
       /\ req_auth' = auth
       /\ IF ~auth
          THEN UNCHANGED <<dpc, nvs, cfg, stable_cred, prev_cred, form>>
          ELSE LET c == ApplyWifiForm(cfg, f)
               IN  /\ cfg' = c
                   /\ Save(c)
                   /\ prev_cred' = Cred(cfg)
                   /\ form' = f
                   /\ dpc' = IF wifi_changed(f) THEN "apply_new_cfg" ELSE "serving"
  /\ UNCHANGED <<ap_started, sta_tried, join_ok, boot_cause, rollback_streak>>
  /\ UNCHANGED <<uvars, mvars>>

\* Mutant of ProposalState: the outcome of the join is ignored.
ProposalState_AlwaysStable(ok) == STABLE

\* MnWiFi::apply_new_cfg_and_test: the flag persisted after the join attempt
ProposalState(ok) == IF ok THEN STABLE ELSE TEST_PENDING

\* MnWiFi::apply_new_cfg_and_test
ApplyNewCfgAndTest ==
  /\ dpc = "apply_new_cfg"
  /\ \E ok \in JoinOutcomes(cfg.wifi_ssid) :
       /\ join_ok' = ok
       /\ Save([cfg EXCEPT !.WifiConfig = ProposalState(ok)])
       /\ Restart(IF ok THEN "propose_ok" ELSE "propose_fail")
  /\ UNCHANGED <<rollback_streak, req_auth>>
  /\ UNCHANGED <<uvars, mvars>>

\* Mutant of HandleFactoryReset: the restart comes without the defaults.
HandleFactoryReset_NoDefaults ==
  /\ dpc = "serving"
  /\ \E auth \in BOOLEAN :
       /\ req_auth' = auth
       /\ IF ~auth
          THEN UNCHANGED <<dpc, nvs, cfg, ap_started, sta_tried, boot_cause,
                           stable_cred, prev_cred, form>>
          ELSE /\ Restart("factory_reset")
               /\ UNCHANGED <<nvs, stable_cred>>
  /\ UNCHANGED <<join_ok, rollback_streak>>
  /\ UNCHANGED <<uvars, mvars>>

\* handle_factory_reset
HandleFactoryReset ==
  /\ dpc = "serving"
  /\ \E auth \in BOOLEAN :
       /\ req_auth' = auth
       /\ IF ~auth
          THEN UNCHANGED <<dpc, nvs, cfg, ap_started, sta_tried, boot_cause,
                           stable_cred, prev_cred, form>>
          ELSE Save(reset_defaults(MacStr)) /\ Restart("factory_reset")
  /\ UNCHANGED <<join_ok, rollback_streak>>
  /\ UNCHANGED <<uvars, mvars>>

\* handle_reboot
HandleReboot ==
  /\ dpc = "serving"
  /\ \E auth \in BOOLEAN :
       /\ req_auth' = auth
       /\ Restart("reboot")
  /\ UNCHANGED <<nvs, stable_cred, join_ok, rollback_streak>>
  /\ UNCHANGED <<uvars, mvars>>

\* power-on of a device whose flash holds no record yet; no upload runs
DevInit ==
  /\ pc = "idle"
  /\ req = [kind |-> "none", bytes |-> <<>>, lo |-> 0, hi |-> 0]
  /\ received_total = 0
  /\ rx = <<>>
  /\ have_prefetched = FALSE
  /\ boundary = <<>>
  /\ tail = <<>>
  /\ started_payload = FALSE
  /\ done = FALSE
  /\ total_written = 0
  /\ mode = "none"
  /\ sink = "closed"
  /\ sink_ends = 0
  /\ written = <<>>
  /\ written_offs = <<>>
  /\ boot_set = FALSE
  /\ heap = [b \in Buffers |-> "unset"]
  /\ resp = <<>>
  /\ write_failed = FALSE
  /\ end_failed = FALSE
  /\ read_failed = FALSE
  /\ marker_split = FALSE
  /\ other_split = FALSE
  /\ first_clear = FALSE
  /\ last_read = "none"
  /\ retry_flip = FALSE
  /\ dpc = "load_or_init"
  /\ nvs = <<>>
  /\ cfg = ZeroCfg
  /\ ap_started = FALSE
  /\ sta_tried = FALSE
  /\ join_ok = FALSE
  /\ boot_cause = "power_on"
  /\ rollback_streak = 0
  /\ stable_cred = <<"", "">>
  /\ req_auth = FALSE
  /\ prev_cred = <<"", "">>
  /\ form = NoForm
  /\ MonIdle

DevNext ==
  \/ LoadOrInit
  \/ WifiBegin
  \/ HandleQueryWifi
  \/ ApplyNewCfgAndTest
  \/ HandleFactoryReset
  \/ HandleReboot

DevSpec == DevInit /\ [][DevNext]_vars

(***************************************************************************)
(* The CPU monitor: mn_cpu_monitor_task, the periodic task that writes the *)
(* snapshot s_mon, and the renderers append_cpu_load and stream_cpu_load,  *)
(* which read it for the sysinfo page.  The pages are served one at a time *)
(* by the HTTP server task.  A sample is named by its number; the values   *)
(* computed from it are modelled by that number.                           *)
(***************************************************************************)
MaxSample == 3
Renderers == {"append_cpu_load", "stream_cpu_load"}

\* vTaskDelayUntil has returned; lines 247-282, up to xSemaphoreTake
MonSample ==
  /\ mpc = "delay"
  /\ \E enabled, alloc_ok, got_ok, create_ok \in BOOLEAN :
       IF ~enabled \/ ~alloc_ok \/ ~got_ok
       THEN UNCHANGED <<mpc, total_now, s_mon_mtx>>
       ELSE /\ total_now' = (s_mon.last_total % MaxSample) + 1
            /\ IF s_mon_mtx
               THEN mpc' = "take" /\ UNCHANGED s_mon_mtx
               ELSE IF create_ok
               THEN mpc' = "take" /\ s_mon_mtx' = TRUE
               ELSE UNCHANGED <<mpc, s_mon_mtx>>
  /\ UNCHANGED <<mtx_holder, s_mon_task, s_mon, ppc, page_fn, page_inst, page_avg>>
  /\ UNCHANGED <<uvars, dvars>>

\* line 284: xSemaphoreTake(s_mon_mtx, portMAX_DELAY) returns
MonTake ==
  /\ mpc = "take"
  /\ mtx_holder = "none"
  /\ mtx_holder' = "monitor"
  /\ mpc' = IF s_mon.last_total = 0 THEN "first" ELSE "write_inst"
  /\ UNCHANGED <<s_mon_mtx, s_mon_task, s_mon, total_now, ppc, page_fn,
                 page_inst, page_avg>>
  /\ UNCHANGED <<uvars, dvars>>

\* lines 293-307: the first sample only sets the reference and ready
MonFirstSample ==
  /\ mpc = "first"
  /\ s_mon' = [s_mon EXCEPT !.last_total = total_now, !.ready = TRUE]
  /\ mtx_holder' = "none"
  /\ mpc' = "delay"
  /\ UNCHANGED <<s_mon_mtx, s_mon_task, total_now, ppc, page_fn, page_inst,
                 page_avg>>
  /\ UNCHANGED <<uvars, dvars>>

\* line 358: s_mon.global_inst
MonWriteInst ==
  /\ mpc = "write_inst"
  /\ s_mon' = [s_mon EXCEPT !.global_inst = total_now]
  /\ mpc' = "write_avg"
  /\ UNCHANGED <<s_mon_mtx, mtx_holder, s_mon_task, total_now, ppc, page_fn,
                 page_inst, page_avg>>
  /\ UNCHANGED <<uvars, dvars>>

\* lines 359-376: the averages, then last_total and last_us
MonWriteAvg ==
  /\ mpc = "write_avg"
  /\ s_mon' = [s_mon EXCEPT !.global_avg5s = total_now, !.last_total = total_now]
  /\ mpc' = "give"
  /\ UNCHANGED <<s_mon_mtx, mtx_holder, s_mon_task, total_now, ppc, page_fn,
                 page_inst, page_avg>>
  /\ UNCHANGED <<uvars, dvars>>

\* line 378: xSemaphoreGive, then back to vTaskDelayUntil
MonGive ==
  /\ mpc = "give"
  /\ mtx_holder' = "none"
  /\ mpc' = "delay"
  /\ UNCHANGED <<s_mon_mtx, s_mon_task, s_mon, total_now, ppc, page_fn,
                 page_inst, page_avg>>
  /\ UNCHANGED <<uvars, dvars>>

\* a sysinfo page is requested: the renderer calls
\* mn_cpu_monitor_ensure_started and returns at once when there is no mutex
PageRequest ==
  /\ ppc = "idle"
  /\ \E fn \in Renderers, create_ok, task_ok \in BOOLEAN :
       /\ page_fn' = fn
       /\ IF s_mon_task
          THEN /\ ppc' = "take"
               /\ UNCHANGED <<s_mon_mtx, s_mon_task, mpc>>
          ELSE IF ~s_mon_mtx /\ ~create_ok
          THEN UNCHANGED <<ppc, s_mon_mtx, s_mon_task, mpc>>
          ELSE /\ s_mon_mtx' = TRUE
               /\ s_mon_task' = task_ok
               /\ mpc' = IF task_ok THEN "delay" ELSE mpc
               /\ ppc' = "take"
  /\ UNCHANGED <<mtx_holder, s_mon, total_now, page_inst, page_avg>>
  /\ UNCHANGED <<uvars, dvars>>

\* lines 400 and 765: xSemaphoreTake(s_mon_mtx, portMAX_DELAY) returns
PageTake ==
  /\ ppc = "take"
  /\ mtx_holder = "none"
  /\ mtx_holder' = "page"
  /\ ppc' = "read_ready"
  /\ UNCHANGED <<s_mon_mtx, s_mon_task, s_mon, mpc, total_now, page_fn,
                 page_inst, page_avg>>
  /\ UNCHANGED <<uvars, dvars>>

\* mutant of PageReadReady: the warm-up return keeps the mutex
PageReadReady_NoGive ==
  /\ ppc = "read_ready"
  /\ IF ~s_mon.ready
     THEN ppc' = "idle"
     ELSE ppc' = "read_inst"
  /\ UNCHANGED <<s_mon_mtx, mtx_holder, s_mon_task, s_mon, mpc, total_now,
                 page_fn, page_inst, page_avg>>
  /\ UNCHANGED <<uvars, dvars>>

\* lines 402-408 and 767-773: not ready yet, the mutex is given back and the
\* warm-up text is sent
PageReadReady ==
  /\ ppc = "read_ready"
  /\ IF ~s_mon.ready
     THEN mtx_holder' = "none" /\ ppc' = "idle"
     ELSE mtx_holder' = mtx_holder /\ ppc' = "read_inst"
  /\ UNCHANGED <<s_mon_mtx, s_mon_task, s_mon, mpc, total_now, page_fn,
                 page_inst, page_avg>>
  /\ UNCHANGED <<uvars, dvars>>

\* lines 411 and 776: s_mon.global_inst is printed
PageReadInst ==
  /\ ppc = "read_inst"
  /\ page_inst' = s_mon.global_inst
  /\ ppc' = "read_avg"
  /\ UNCHANGED <<s_mon_mtx, mtx_holder, s_mon_task, s_mon, mpc, total_now,
                 page_fn, page_avg>>
  /\ UNCHANGED <<uvars, dvars>>

\* lines 412-452 and 777-814: the averages and the task table are printed
PageReadAvg ==
  /\ ppc = "read_avg"
  /\ page_avg' = s_mon.global_avg5s
  /\ ppc' = "give"
  /\ UNCHANGED <<s_mon_mtx, mtx_holder, s_mon_task, s_mon, mpc, total_now,
                 page_fn, page_inst>>
  /\ UNCHANGED <<uvars, dvars>>

\* lines 454 and 816: xSemaphoreGive, the renderer returns
PageGive ==
  /\ ppc = "give"
  /\ mtx_holder' = "none"
  /\ ppc' = "idle"
  /\ UNCHANGED <<s_mon_mtx, s_mon_task, s_mon, mpc, total_now, page_fn,
                 page_inst, page_avg>>
  /\ UNCHANGED <<uvars, dvars>>

\* the program has started: no upload runs, the device serves requests
MonInit ==
  /\ pc = "idle"
  /\ req = [kind |-> "none", bytes |-> <<>>, lo |-> 0, hi |-> 0]
  /\ received_total = 0
  /\ rx = <<>>
  /\ have_prefetched = FALSE
  /\ boundary = <<>>
  /\ tail = <<>>
  /\ started_payload = FALSE
  /\ done = FALSE
  /\ total_written = 0
  /\ mode = "none"
  /\ sink = "closed"
  /\ sink_ends = 0
  /\ written = <<>>
  /\ written_offs = <<>>
  /\ boot_set = FALSE
  /\ heap = [b \in Buffers |-> "unset"]
  /\ resp = <<>>
  /\ write_failed = FALSE
  /\ end_failed = FALSE
  /\ read_failed = FALSE
  /\ marker_split = FALSE
  /\ other_split = FALSE
  /\ first_clear = FALSE
  /\ last_read = "none"
  /\ retry_flip = FALSE
  /\ DevIdle
  /\ MonIdle

MonNext ==
  \/ MonSample
  \/ MonTake
  \/ MonFirstSample
  \/ MonWriteInst
  \/ MonWriteAvg
  \/ MonGive
  \/ PageRequest
  \/ PageTake
  \/ PageReadReady
  \/ PageReadInst
  \/ PageReadAvg
  \/ PageGive

\* The monitor task and the renderer go on running once started; a task that
\* waits in xSemaphoreTake is on the waiting list of the mutex and gets it
\* when it is given, the task that gave it going to sleep (monitor) or
\* returning (renderer).  Page requests come as the clients please.
MonFair ==
  /\ WF_vars(MonFirstSample) /\ WF_vars(MonWriteInst) /\ WF_vars(MonWriteAvg)
  /\ WF_vars(MonGive)
  /\ WF_vars(PageReadReady) /\ WF_vars(PageReadInst) /\ WF_vars(PageReadAvg)
  /\ WF_vars(PageGive)
  /\ SF_vars(MonTake) /\ SF_vars(PageTake)

MonSpec == MonInit /\ [][MonNext]_vars /\ MonFair

(***************************************************************************)
(* Properties.                                                             *)
(***************************************************************************)
Finished == pc \in {"returned", "restarted"}
LastResp == IF resp = <<>> THEN 0 ELSE resp[Len(resp)]
\* the part body of a multipart request, as the body was built
PartBody == SubSeq(req.bytes, req.lo + 1, req.hi)
\* every byte of the body was read and every sink write succeeded
CleanRun == ~read_failed /\ ~write_failed

\* C1: once esp_ota_begin has succeeded, the sink is ended exactly once by the
\* time the handler returns or restarts, on every path; it is never ended
\* twice and never left open.
C1_SinkEndedExactlyOnce ==
  /\ sink_ends <= 1
  /\ (sink = "open") => (sink_ends = 0 /\ ~Finished)
  /\ (sink = "ended") => (sink_ends = 1)
  /\ (Finished /\ sink # "closed") => (sink = "ended" /\ sink_ends = 1)

C1_Witness ==
  /\ pc = "returned" /\ mode = "MULTIPART" /\ write_failed
  /\ sink = "ended" /\ sink_ends = 1

\* C2: a multipart body with a non-empty part delivered in two chunks, the cut
\* strictly inside the end-of-part marker, hands the sink the same bytes as
\* the same body delivered as one chunk.
SingleChunkWritten ==
  LET b == req.bytes
      w == MpWindow(<<>>, b, FALSE, BoundaryOf(b, FirstCrlf(b)))
  IN  SubSeq(b, w.write_from + 1, w.write_upto)

C2_BoundarySplitInvariant ==
  (Finished /\ mode = "MULTIPART" /\ req.hi > req.lo /\ CleanRun
     /\ marker_split /\ ~other_split)
    => written = SingleChunkWritten

\* C3: a multipart upload of a non-empty image, read to its end-of-part
\* marker with no sink failure, is not rejected and writes exactly the image,
\* whatever the chunk sizes.
C3_AnyChunkingWritesImage ==
  (Finished /\ req.kind = "multipart" /\ req.hi > req.lo /\ CleanRun
     /\ (done \/ received_total = content_len))
    => /\ written = PartBody
       /\ total_written = req.hi - req.lo
       /\ LastResp # HTTP_BAD_REQUEST

\* C4: in a multipart upload every byte written to the sink is a byte of the
\* part body: its offset lies at or after the payload start and before the
\* end-of-part marker.
C4_OnlyPartBodyWritten ==
  mode = "MULTIPART" =>
    \A i \in 1..Len(written_offs) :
      req.lo <= written_offs[i] /\ written_offs[i] < req.hi

\* C5: the new region is made the boot target only if no sink write failed,
\* at least one byte was written and the sink end succeeded; after a failed
\* write or a failed end there is neither activation nor restart.
C5_ActivationNeedsCleanSink ==
  /\ boot_set => (~write_failed /\ total_written > 0 /\ ~end_failed /\ sink = "ended")
  /\ (write_failed \/ end_failed) => (~boot_set /\ pc # "restarted")

C5_Witness ==
  pc = "returned" /\ end_failed /\ total_written > 0 /\ ~boot_set /\ LastResp = HTTP_INTERNAL

\* C6: an upload whose reads stop (result <= 0) before the declared length
\* (RAW) or before the end-of-part marker (multipart) is never activated and
\* never restarts the device.
C6_TruncatedNeverActivated ==
  (read_failed /\ ( (mode = "RAW" /\ received_total < content_len)
                    \/ (mode = "MULTIPART" /\ ~done) ))
    => (~boot_set /\ pc # "restarted")

\* C7: a request that ends with zero bytes written fails: the sink is ended,
\* the region is not activated, there is no restart and an error is sent.
C7_EmptyPayloadRejected ==
  (Finished /\ sink # "closed" /\ total_written = 0)
    => /\ pc = "returned"
       /\ sink = "ended"
       /\ ~boot_set
       /\ LastResp \in {HTTP_BAD_REQUEST, HTTP_INTERNAL}

C7_Witness ==
  /\ pc = "returned" /\ mode = "MULTIPART" /\ ~started_payload
  /\ received_total = content_len /\ total_written = 0
  /\ sink = "ended" /\ resp = <<HTTP_BAD_REQUEST>>

\* C8: the handler ends in a restart exactly when the new region was made
\* the boot target; a return never follows an activation.
C8_RestartIffActivated ==
  /\ (pc = "restarted") <=> boot_set
  /\ (pc = "returned") => ~boot_set

C8_Witness == pc = "restarted" /\ boot_set /\ LastResp = HTTP_OK

\* C9: a body that starts with "--" is never handled as RAW, a body that
\* starts with the magic byte is never handled as MULTIPART, and the mode,
\* once set by the first chunk, never changes.
C9_ModeInv ==
  /\ mode = "RAW" => ~(req.bytes[1] = DASH /\ req.bytes[2] = DASH)
  /\ mode = "MULTIPART" => req.bytes[1] # IMAGE_MAGIC
  /\ pc = "raw" => mode = "RAW"
  /\ pc = "mp" => mode = "MULTIPART"
  /\ mode = "RAW" => (boundary = <<>> /\ tail = <<>> /\ ~started_payload /\ ~done)

C9_FramingExclusive ==
  /\ []C9_ModeInv
  /\ [][mode # "none" => mode' = mode]_vars

C9_Witness ==
  /\ req.bytes[1] = IMAGE_MAGIC /\ ~looks_like_esp_idf_image(req.bytes)
  /\ pc = "returned" /\ mode = "none" /\ received_total = content_len

\* C10: in RAW mode, as long as no sink write failed, the bytes written are
\* exactly the bytes received, in order, the first chunk included.
C10_RawWritesEverything ==
  (mode = "RAW" /\ ~write_failed)
    => /\ written = SubSeq(req.bytes, 1, received_total)
       /\ total_written = received_total

C10_Witness ==
  /\ mode = "RAW" /\ pc = "restarted" /\ other_split
  /\ total_written = content_len /\ written = req.bytes

(***************************************************************************)
(* Properties of the device (DevSpec).                                     *)
(***************************************************************************)
\* the record in flash is present and initialized
Initialized == Len(nvs) = 1 /\ nvs[1].FlashStatus = FLASH_OK

\* C11: proposing credentials that fail to join never gives an endless
\* restart loop: the boot that follows a rollback boot does not roll back and
\* restart again when the restored credentials fail too.
C11_RollbackBootsDoNotRepeat == rollback_streak <= 1

\* C12: when the join attempt of a proposal begins, the record in flash is
\* the record in memory, its flag is TEST_PENDING, its old credentials are
\* the credentials that were current before the request and its current
\* credentials carry the proposed values; so no join with new credentials is
\* attempted while the persisted flag is still STABLE.
C12_StagedBeforeJoin ==
  dpc = "apply_new_cfg" =>
    /\ nvs = <<cfg>>
    /\ nvs[1].WifiConfig = TEST_PENDING
    /\ OldCred(nvs[1]) = prev_cred
    /\ nvs[1].wifi_ssid = (IF form.ssid_set THEN form.ssid ELSE prev_cred[1])
    /\ nvs[1].wifi_password = (IF form.pass_set THEN form.pass ELSE prev_cred[2])

C12_Witness ==
  /\ dpc = "apply_new_cfg"
  /\ prev_cred = <<"a", "x">>
  /\ form.ssid_set /\ form.ssid = "b" /\ ~form.pass_set
  /\ nvs[1].FlashStatus = FLASH_OK

\* C13: the join attempt of a proposal is followed by a persist and a
\* restart, and the flag persisted is STABLE exactly when the join succeeded,
\* TEST_PENDING when it failed; nothing else of the record changes.
C13_ProposalEndsPersistedAndRestarted ==
  [][dpc = "apply_new_cfg" =>
       /\ dpc' = "load_or_init"
       /\ boot_cause' \in {"propose_ok", "propose_fail"}
       /\ Len(nvs') = 1
       /\ (nvs'[1].WifiConfig = STABLE) <=> join_ok'
       /\ (nvs'[1].WifiConfig = TEST_PENDING) <=> ~join_ok'
       /\ nvs'[1] = [cfg EXCEPT !.WifiConfig = nvs'[1].WifiConfig]]_vars

C13_Witness ==
  /\ dpc = "load_or_init"
  /\ boot_cause = "propose_ok"
  /\ join_ok
  /\ Initialized
  /\ nvs[1].WifiConfig = STABLE
  /\ Cred(nvs[1]) = <<"b", "x">>

\* C14, as stated: on every boot with the flag TEST_PENDING and a configured
\* SSID, begin() restores the old credentials, keeps TEST_PENDING, persists
\* and restarts.
C14_EveryPendingBootRollsBack ==
  [][(dpc = "wifi_begin" /\ cfg.WifiConfig = TEST_PENDING /\ cfg.wifi_ssid # "") =>
       /\ dpc' = "load_or_init"
       /\ boot_cause' = "rollback"
       /\ Len(nvs') = 1
       /\ Cred(nvs'[1]) = OldCred(cfg)
       /\ nvs'[1].WifiConfig = TEST_PENDING]_vars

\* C14, amended: on every boot with the flag TEST_PENDING and a configured
\* SSID on which the join with the current credentials fails, begin()
\* restores the old credentials, keeps TEST_PENDING, persists and restarts;
\* when the join succeeds it persists STABLE with the credentials unchanged
\* and restarts.
C14_PendingBootRollsBackOnFailedJoin ==
  [][(dpc = "wifi_begin" /\ cfg.WifiConfig = TEST_PENDING /\ cfg.wifi_ssid # "") =>
       /\ dpc' = "load_or_init"
       /\ Len(nvs') = 1
       /\ IF join_ok'
          THEN /\ boot_cause' = "commit"
               /\ nvs'[1] = [cfg EXCEPT !.WifiConfig = STABLE]
          ELSE /\ boot_cause' = "rollback"
               /\ Cred(nvs'[1]) = OldCred(cfg)
               /\ OldCred(nvs'[1]) = OldCred(cfg)
               /\ nvs'[1].WifiConfig = TEST_PENDING]_vars

C14_Witness ==
  /\ dpc = "load_or_init"
  /\ boot_cause = "rollback"
  /\ ~join_ok
  /\ Initialized
  /\ nvs[1].WifiConfig = TEST_PENDING
  /\ Cred(nvs[1]) = <<"a", "x">>
  /\ OldCred(nvs[1]) = <<"a", "x">>

\* C15: whenever the flag in flash is TEST_PENDING, the old credentials in
\* flash are the credentials that were current the last time a STABLE record
\* was persisted.
C15_OldIsLastStable ==
  (Initialized /\ nvs[1].WifiConfig = TEST_PENDING) => OldCred(nvs[1]) = stable_cred

\* C16: a restart caused by a request, and any change of the record made by a
\* request, happens only for a request that passed the credential check.
C16_RequestsGated ==
  /\ (dpc = "load_or_init"
       /\ boot_cause \in {"reboot", "factory_reset", "propose_ok", "propose_fail"})
     => req_auth
  /\ dpc = "apply_new_cfg" => req_auth

\* C17: begin() on a record with an empty SSID attempts no join, leaves the
\* record in flash and in memory as it is, requests no restart and starts
\* access-point mode, whatever the flag.
C17_EmptySsidStartsAp ==
  [][(dpc = "wifi_begin" /\ cfg.wifi_ssid = "") =>
       /\ dpc' = "serving"
       /\ ap_started'
       /\ ~sta_tried'
       /\ nvs' = nvs
       /\ cfg' = cfg
       /\ boot_cause' = boot_cause]_vars

C17_Witness ==
  /\ dpc = "serving"
  /\ ap_started
  /\ ~sta_tried
  /\ Initialized
  /\ nvs = <<cfg>>
  /\ cfg.wifi_ssid = ""
  /\ cfg.WifiConfig = TEST_PENDING

\* C18: the flag of an initialized record in flash is STABLE or TEST_PENDING.
C18_FlagIsStableOrPending ==
  Initialized => nvs[1].WifiConfig \in {STABLE, TEST_PENDING}

C18_Witness ==
  /\ Initialized
  /\ nvs[1].WifiConfig = TEST_PENDING
  /\ boot_cause = "propose_fail"
  /\ dpc = "serving"
  /\ nvs[1].hostname = "h1"


(***************************************************************************)
(* Properties of the format detection (Spec).                              *)
(***************************************************************************)
\* C19: a request whose boundary line is longer than the boundary buffer
\* holds is never taken as a multipart body: nothing of it is written to the
\* sink, no boot partition is set and the device does not restart.
C19_LongBoundaryRejected ==
  req.kind = "longboundary" =>
    /\ mode # "MULTIPART"
    /\ written = <<>>
    /\ ~boot_set
    /\ pc # "restarted"

\* the chunk c starts with "--" and holds a CR LF terminated line
DashLine(c) ==
  /\ Len(c) >= 2
  /\ c[1] = DASH
  /\ c[2] = DASH
  /\ \E i \in 1..(Len(c) - 1) : c[i] = CR /\ c[i + 1] = LF

\* C20: a first chunk that neither passes the image header check nor starts
\* with "--" followed by a CR LF terminated line ends the request at once:
\* status 400 is sent, no byte is written, the sink is ended once, no boot
\* partition is set and the handler returns without restarting.
C20_UnknownFormatRejected ==
  [][(pc = "first" /\ received_total' > 0
        /\ ~looks_like_esp_idf_image(SubSeq(req.bytes, 1, received_total'))
        /\ ~DashLine(SubSeq(req.bytes, 1, received_total'))) =>
       /\ pc' = "returned"
       /\ mode' = "none"
       /\ resp' = <<HTTP_BAD_REQUEST>>
       /\ written' = <<>>
       /\ total_written' = 0
       /\ sink' = "ended"
       /\ sink_ends' = 1
       /\ ~boot_set']_vars

C20_Witness ==
  /\ req = BadImage
  /\ received_total = Len(BadImage.bytes)
  /\ pc = "returned"
  /\ mode = "none"
  /\ resp = <<HTTP_BAD_REQUEST>>
  /\ sink = "ended"


(***************************************************************************)
(* Properties of the read loops, the responses and the multipart parser.   *)
(***************************************************************************)
Reading == {"first", "raw", "mp"}
\* the step is a call of httpd_req_recv
ReadStep ==
  \/ last_read' # last_read
  \/ retry_flip' # retry_flip
  \/ received_total' # received_total

\* C22: in each of the three read loops a timeout is retried with nothing
\* changed, and a read that returns zero or a negative value ends the loop:
\* the handler leaves the loop without receiving anything more.
C22_ReadResultsHandled ==
  [][(pc \in Reading /\ ReadStep) =>
       /\ last_read' = "timeout" =>
            UNCHANGED <<pc, req, hvars, svars, gvars, resp>>
       /\ last_read' \in {"zero", "error"} =>
            (pc' \notin Reading /\ received_total' = received_total)]_vars

\* C23: every upload request terminates: it returns or restarts.
C23_UploadTerminates == <>Finished

\* C24: a finished request has sent exactly one response (and an unfinished
\* one none): 200 exactly when the boot partition was set and the device
\* restarts, 400 exactly when a read took place, no write failed and nothing
\* was written, 500 in every other case; 200 is never sent after a failed
\* write or a failed esp_ota_end.
C24_OneResponse ==
  /\ Len(resp) = (IF Finished THEN 1 ELSE 0)
  /\ Finished =>
       /\ resp[1] \in {HTTP_OK, HTTP_BAD_REQUEST, HTTP_INTERNAL}
       /\ (resp[1] = HTTP_OK) <=> boot_set
       /\ (resp[1] = HTTP_OK) <=> (pc = "restarted")
       /\ (resp[1] = HTTP_BAD_REQUEST) <=>
            (last_read # "none" /\ ~write_failed /\ total_written = 0)
       /\ (resp[1] = HTTP_OK) =>
            (~write_failed /\ ~end_failed /\ total_written > 0)

C24_Witness ==
  /\ Finished
  /\ resp = <<HTTP_INTERNAL>>
  /\ write_failed
  /\ total_written > 0
  /\ mode = "MULTIPART"

\* C25: once the window that holds the header terminator has been processed,
\* the payload has started, also when the opening boundary was found in an
\* earlier window than the terminator.
C25_HeaderEndInLaterWindow ==
  (req.kind = "multipart" /\ pc = "mp" /\ ~have_prefetched
     /\ received_total >= req.lo) => started_payload

\* C26: the bytes written to the sink are a contiguous run of the body, in
\* the order of arrival: byte i of the run is the body byte at the offset of
\* the first written byte plus i, none twice and none skipped.
C26_WritesContiguous ==
  /\ Len(written) = total_written
  /\ Len(written_offs) = total_written
  /\ \A i \in 1..Len(written) :
       /\ written_offs[i] = written_offs[1] + i - 1
       /\ written_offs[i] < received_total
       /\ written[i] = req.bytes[written_offs[i] + 1]

C26_Witness ==
  /\ req.kind = "multipart"
  /\ req.hi - req.lo > TAIL_MIN
  /\ pc = "restarted"
  /\ other_split
  /\ written = PartBody

\* C27: when the end-of-part marker has been found, the bytes written end
\* just before the marker, and from then on nothing more is read and nothing
\* more is written.
C27_DoneStopsAtMarker ==
  /\ [](done /\ ~write_failed /\ written # <<>> =>
          written_offs[Len(written_offs)] + 1 = req.hi)
  /\ [][done => (done' /\ received_total' = received_total
                  /\ written' = written /\ rvars' = rvars)]_vars

C27_Witness ==
  /\ done
  /\ pc = "restarted"
  /\ received_total < content_len
  /\ written = PartBody
  /\ written # <<>>

\* C28: for the boundary in use the tail size is at least the boundary
\* length plus the length of the header terminator and at most TAIL_MAX, the
\* boundary fits its buffer with its terminator, the tail never holds more
\* than the tail size and a window never more than CHUNK + TAIL_MAX bytes.
C28_BuffersBounded ==
  mode = "MULTIPART" =>
    LET T == TailSize(Len(boundary))
    IN  /\ Len(boundary) < BOUNDARY_CAP
        /\ T >= Len(boundary) + Len(hdr_end_pat)
        /\ T <= TAIL_MAX
        /\ Len(tail) <= T
        /\ Len(rx) <= CHUNK
        /\ Len(tail) + Min2(CHUNK, content_len - received_total) <= CHUNK + TAIL_MAX

C28_Witness ==
  /\ req = LongBoundary
  /\ Len(boundary) = BOUNDARY_CAP - 1
  /\ Len(tail) = TailSize(Len(boundary))
  /\ Len(tail) > TAIL_MIN


(***************************************************************************)
(* More properties of the device (DevSpec).                                *)
(***************************************************************************)
\* C21: a request handled while the web server stays up (a /wifi request
\* without SSID and password field) changes neither the Wi-Fi flag nor the
\* current nor the old credentials; it attempts no join and requests no
\* restart, and what it persists is the record in memory.
C21_SettingsOnlyKeepsWifi ==
  [][(dpc = "serving" /\ dpc' = "serving") =>
       /\ cfg'.WifiConfig = cfg.WifiConfig
       /\ Cred(cfg') = Cred(cfg)
       /\ OldCred(cfg') = OldCred(cfg)
       /\ boot_cause' = boot_cause
       /\ join_ok' = join_ok
       /\ nvs' # nvs => nvs' = <<cfg'>>]_vars

\* C29: begin() on a record with the flag TEST_PENDING and a configured SSID,
\* when the join succeeds, persists the record with the flag STABLE and
\* everything else as it was (current credentials kept, old credentials not
\* restored) and restarts.
C29_PendingBootCommitsOnJoin ==
  [][(dpc = "wifi_begin" /\ cfg.WifiConfig = TEST_PENDING /\ cfg.wifi_ssid # ""
        /\ join_ok') =>
       /\ dpc' = "load_or_init"
       /\ boot_cause' = "commit"
       /\ Len(nvs') = 1
       /\ nvs'[1].WifiConfig = STABLE
       /\ Cred(nvs'[1]) = Cred(cfg)
       /\ OldCred(nvs'[1]) = OldCred(cfg)
       /\ nvs'[1].hostname = cfg.hostname]_vars

C29_Witness ==
  /\ dpc = "load_or_init"
  /\ boot_cause = "commit"
  /\ join_ok
  /\ Initialized
  /\ nvs[1].WifiConfig = STABLE
  /\ Cred(nvs[1]) = <<"b", "x">>
  /\ OldCred(nvs[1]) = <<"a", "x">>

\* C30: begin() on a record with the flag STABLE and a configured SSID, when
\* the join fails, starts access-point mode and leaves the record in flash
\* and in memory as it is, without a restart.
C30_StableJoinFailureStartsAp ==
  [][(dpc = "wifi_begin" /\ cfg.WifiConfig = STABLE /\ cfg.wifi_ssid # ""
        /\ dpc' # dpc /\ ~join_ok') =>
       /\ dpc' = "serving"
       /\ ap_started'
       /\ sta_tried'
       /\ nvs' = nvs
       /\ cfg' = cfg
       /\ boot_cause' = boot_cause]_vars

C30_Witness ==
  /\ dpc = "serving"
  /\ ap_started
  /\ sta_tried
  /\ ~join_ok
  /\ Initialized
  /\ nvs = <<cfg>>
  /\ cfg.WifiConfig = STABLE
  /\ Cred(cfg) = <<"a", "x">>

\* C31: while the device serves requests after a boot whose record has a
\* configured SSID, the flag is STABLE in flash and in memory; the flag
\* TEST_PENDING is found while serving only with an empty SSID.
C31_ServingWithSsidIsStable ==
  (dpc = "serving" /\ cfg.wifi_ssid # "") =>
     /\ Initialized
     /\ nvs = <<cfg>>
     /\ cfg.WifiConfig = STABLE

C31_Witness ==
  /\ dpc = "serving"
  /\ boot_cause = "commit"
  /\ sta_tried
  /\ join_ok
  /\ ~ap_started
  /\ nvs = <<cfg>>
  /\ cfg.WifiConfig = STABLE
  /\ Cred(cfg) = <<"b", "x">>

\* the flag TEST_PENDING while serving: the rollback left an empty SSID
C31_PendingServingWitness ==
  /\ dpc = "serving"
  /\ cfg.WifiConfig = TEST_PENDING
  /\ cfg.wifi_ssid = ""
  /\ ap_started

\* C32: the steps of the commit protocol (apply_new_cfg_and_test, and the
\* commit and the rollback of begin) persist a record whose old credentials,
\* sentinel and other settings are those the step found in memory.
C32_ProtocolKeepsOtherFields ==
  [][(dpc \in {"wifi_begin", "apply_new_cfg"} /\ dpc' = "load_or_init") =>
       /\ Len(nvs') = 1
       /\ OldCred(nvs'[1]) = OldCred(cfg)
       /\ nvs'[1].hostname = cfg.hostname
       /\ nvs'[1].FlashStatus = cfg.FlashStatus]_vars

C32_Witness ==
  /\ dpc = "load_or_init"
  /\ boot_cause = "rollback"
  /\ Initialized
  /\ nvs[1].hostname = "h1"
  /\ nvs[1].WifiConfig = TEST_PENDING
  /\ OldCred(nvs[1]) = <<"a", "x">>
  /\ Cred(nvs[1]) = <<"a", "x">>

\* load_or_init at lines 25-37: the defaults go to memory and flash and the
\* device restarts
DefaultsWrittenAndRestarted ==
  /\ nvs' = <<reset_defaults(MacStr)>>
  /\ dpc' = "load_or_init"
  /\ boot_cause' = "init"
  /\ cfg' = ZeroCfg

\* load_or_init at line 21: nvs_open failed, nothing was read or written
OpenFailedNothingDone ==
  /\ dpc' = "wifi_begin"
  /\ nvs' = nvs
  /\ cfg' = cfg
  /\ cfg = ZeroCfg

C34_FramingIndependentOfChunking ==
  (received_total > 0) =>
     /\ (req.kind = "image" => mode = "RAW")
     /\ (req.kind = "multipart" => mode = "MULTIPART")

\* C36: esp_ota_write is called only on the open sink, never before
\* esp_ota_begin has succeeded and never after esp_ota_end; the sink is open
\* whenever httpd_req_recv is called, the first call included.
C36_WritesOnlyWhileOpen ==
  [][/\ (written' # written \/ (write_failed' /\ ~write_failed)) =>
           (sink = "open" /\ sink_ends = 0)
     /\ ReadStep => (sink = "open" /\ sink_ends = 0)]_vars

C36_Witness ==
  /\ pc = "mp"
  /\ sink = "open"
  /\ sink_ends = 0
  /\ last_read = "data"
  /\ Len(written) > 0
  /\ received_total < content_len

\* C35: when the first chunk of a multipart body holds the boundary line, the
\* part headers and more than TAIL bytes after them, the bytes written are
\* at every moment a prefix of the part body, and once the handler has
\* finished with every read and write successful they are the part body.
C35_ClearFirstWindowWritesPartBody ==
  first_clear =>
     /\ Len(written) <= Len(PartBody)
     /\ written = SubSeq(PartBody, 1, Len(written))
     /\ (Finished /\ CleanRun) => written = PartBody

C35_Witness ==
  /\ first_clear
  /\ pc = "restarted"
  /\ marker_split
  /\ other_split
  /\ req = MpBody(MaxHdr, MaxPay)
  /\ Len(written_offs) > 2
  /\ written = PartBody

\* C39: the buffers rx, win and tail are live wherever the handler reads,
\* parses or writes; once it has returned or restarted after the allocation,
\* each buffer that was allocated has been released, none is released twice,
\* and a buffer whose allocation failed is not released at all.
C39_BuffersReleasedOnce ==
  /\ \A b \in Buffers : heap[b] # "freed_twice"
  /\ (pc = "start") => (\A b \in Buffers : heap[b] = "unset")
  /\ (pc \in {"first", "raw", "mp", "final"}) =>
        (\A b \in Buffers : heap[b] = "live")
  /\ (Finished /\ sink = "closed") => (\A b \in Buffers : heap[b] = "unset")
  /\ (Finished /\ sink # "closed") =>
        (\A b \in Buffers : heap[b] \in {"null", "freed"})
  /\ (Finished /\ received_total > 0) =>
        (\A b \in Buffers : heap[b] = "freed")

C39_Witness ==
  /\ pc = "returned"
  /\ sink = "ended"
  /\ resp = <<HTTP_INTERNAL>>
  /\ heap = [b \in Buffers |-> IF b = "win" THEN "null" ELSE "freed"]

\* all three buffers released before the restart
C39_RestartWitness ==
  /\ pc = "restarted"
  /\ boot_set
  /\ \A b \in Buffers : heap[b] = "freed"

\* where the monitor task and the renderer touch the snapshot, and who holds
\* the mutex there
C38_Exclusive ==
  /\ (mpc \in {"first", "write_inst", "write_avg", "give"}) =>
        mtx_holder = "monitor"
  /\ (ppc \in {"read_ready", "read_inst", "read_avg", "give"}) =>
        mtx_holder = "page"
  /\ (mpc \in {"none", "delay", "take"} /\ ppc \in {"idle", "take"}) =>
        mtx_holder = "none"
  /\ (mtx_holder # "none") => s_mon_mtx
  /\ (ppc = "give") => page_inst = page_avg

\* C38: the snapshot is written by the monitor task and read by a renderer
\* only while that task holds the mutex, the two never hold it together,
\* the mutex is free whenever neither is between its take and its give, the
\* two values a page prints come from the same sample, and a task waiting
\* for the mutex gets it.
C38_SnapshotUnderMutex ==
  /\ []C38_Exclusive
  /\ (mpc = "take") ~> (mtx_holder = "monitor")
  /\ (ppc = "take") ~> (mtx_holder = "page")

C38_Witness ==
  /\ ppc = "give"
  /\ mpc = "take"
  /\ mtx_holder = "page"
  /\ s_mon.ready
  /\ page_inst = 2
  /\ page_avg = 2
  /\ total_now = 3

====
